---- MODULE Spec2Model ----
(***************************************************************************)
(* resmerge: merging of clusterings (CNL files) with deduplication by an   *)
(* order-independent aggregation hash, filtering by cluster size and by a  *)
(* node base, and extraction of the node base.                             *)
(*                                                                         *)
(* A run is modelled line by line.  The content of the input files is      *)
(* chosen by the environment at every StringBuffer::readline call; what    *)
(* was read is kept in the history variables inp and hist.                 *)
(***************************************************************************)
EXTENDS Integers, Sequences, FiniteSets

\* ------------------------------------------------------------- bounds ----
MaxId == 3          \* node ids of the inputs are 0..MaxId
MaxLen == 2         \* tokens in one input line
MaxTokens == 4      \* tokens read from the input files in one run
MaxFiles == 2       \* input files of one run
MaxSize == 2        \* cmin and cmax are in 0..MaxSize
IdBits == 2         \* width of Id, scaled down from 32; AccId has twice the width
WideBits == 6       \* a width of Id in which the squares of the ids 0..7 are exact
SyncTokens == 3     \* tokens read in one run with a node base
DupTokens == 9      \* tokens read in one run over files of colliding clusters
DigestSpace == 2    \* number of values of AggHash::hash(), scaled down from 2^64
OrderFiles == 3     \* input files of a run whose output order is examined
OrderTokens == 5    \* tokens read in such a run
PageSize == 3       \* StringBuffer::spagesize, scaled down from 4096
MaxChars == 6       \* characters of a file read through a StringBuffer
MaxHeader == 4      \* characters of a header comment after its '#'

Ids == 0 .. MaxId
Lines == UNION {[1 .. n -> Ids] : n \in 1 .. MaxLen}
NoFile == [open |-> FALSE, lines |-> <<>>, nl |-> TRUE]

VARIABLES
    env,        \* what the environment may put in the input files of run 1
    mode,       \* "merge" or "extract"
    cmin, cmax, \* bounds of the cluster size, 0 for none
    fbase,      \* the file of the node base (NoFile when not given)
    pc,         \* position of the run
    run,        \* 1: a run over files of the environment, 2: the run over the output of run 1
    prev,       \* the output of run 1 (header counts and cluster lines)
    nodebase,   \* UniqIds nodebase
    nosync,     \* const bool nosync
    chashes,    \* digest -> the fingerprints stored under it (empty: no such key)
    line,       \* StringBuffer line, as the tokens strtok yields from it
    ateof,      \* the end-of-file indicator of the current input stream
    fidx,       \* number of input files opened so far
    out,        \* the cluster lines written to fout, in order
    hdr,        \* the header of fout
    hist,       \* history: the records the scan loop processed
    inp,        \* history: the content of the input files, as far as it was read
    ntok        \* number of tokens read so far

vars == <<env, mode, cmin, cmax, fbase, pc, run, prev, nodebase, nosync, chashes,
          line, ateof, fidx, out, hdr, hist, inp, ntok>>

\* ------------------------------------------------------ integer widths ----
RECURSIVE Pow2(_)
Pow2(n) == IF n = 0 THEN 1 ELSE 2 * Pow2(n - 1)

\* the number of values of Id and of AccId, the accumulator of twice the width
IdMod == Pow2(env.bits)
AccMod == Pow2(2 * env.bits)

\* ------------------------------------------------------------- AggHash ----
clear == [m_size |-> 0, m_idsum |-> 0, m_id2sum |-> 0]

\* an accumulation that weighs an id by its position in the cluster
addWeighted(h, id) ==
    [m_size |-> (h.m_size + 1) % AccMod,
     m_idsum |-> (h.m_idsum + id * (h.m_size + 1)) % AccMod,
     m_id2sum |-> (h.m_id2sum + ((id * id) % IdMod)) % AccMod]

\* ++m_size; m_idsum += id; m_id2sum += id * id;  the product is evaluated in
\* the type Id and wraps to its width before it is accumulated
add(h, id) ==
    [m_size |-> (h.m_size + 1) % AccMod,
     m_idsum |-> (h.m_idsum + id) % AccMod,
     m_id2sum |-> (h.m_id2sum + ((id * id) % IdMod)) % AccMod]

\* std::hash<string> over the bytes of the three fields: a fixed function of
\* the fields with fewer values than there are field triples
hash(h) == ((h.m_size * 31 + h.m_idsum) * 31 + h.m_id2sum) % DigestSpace

\* a comparison that leaves out the sum of the squares
AggEqSum(a, b) == a.m_size = b.m_size /\ a.m_idsum = b.m_idsum

\* operator ==
AggEq(a, b) ==
    a.m_size = b.m_size /\ a.m_idsum = b.m_idsum /\ a.m_id2sum = b.m_id2sum

\* the aggregation of the ids of a sequence, added left to right after clear()
RECURSIVE AggOf(_)
AggOf(s) == IF s = <<>> THEN clear ELSE add(AggOf(SubSeq(s, 1, Len(s) - 1)), s[Len(s)])

\* ------------------------------------------------------------- helpers ----
Range(s) == {s[i] : i \in 1 .. Len(s)}
Count(x, s) == Cardinality({i \in 1 .. Len(s) : s[i] = x})
IsPerm(s, t) == Len(s) = Len(t) /\ \A x \in Range(s) \cup Range(t) : Count(x, s) = Count(x, t)

\* -------------------------------------------------------- size filter ----
\* a size filter whose lower bound is exclusive
SizeOkStrict(n, lo, hi) == n > lo /\ (hi = 0 \/ n <= hi)

\* cnds.size() >= cmin && (!cmax || cnds.size() <= cmax)
SizeOk(n, lo, hi) == n >= lo /\ (hi = 0 \/ n <= hi)

\* ------------------------------------------------------------- files ----
\* a token that starts with '#': the line is a comment (the header is one)
Hash == 0 - 1
Comment == <<Hash>>

\* a token that ends with '>': the label (id) of the cluster
Label == 0 - 2

\* a token with no leading digit, such as "x"
Junk == 0 - 3

\* strtoul(tok, nullptr, 10): 0 when the token has no leading digit; the
\* test for that outcome is under #if VALIDATE >= 2 and VALIDATE is not defined
\* A token ShareMark + id is the text of the id with a share after it, "id:s":
\* the conversion stops at the ':'.
ShareMark == 10
strtoul(tok) == IF tok \in Nat THEN tok % ShareMark ELSE 0

\* the text of a token as a string
TokDigits == <<"0", "1", "2", "3", "4", "5", "6", "7", "8", "9">>
TokString(tok) ==
    IF tok \notin Nat THEN "x"
    ELSE IF tok >= ShareMark THEN TokDigits[(tok % ShareMark) + 1] \o ":s"
    ELSE TokDigits[tok + 1]

\* clstr.append(tok): the text of the token as it stands in the line
TokText(tok) == TokString(tok)

\* clstr.append(tok) += ' ' for each token taken; then clstr.pop_back() and
\* if(clstr.back() != '\n') clstr.push_back('\n'): the characters and tokens
\* of the string given to fputs
RECURSIVE Appended(_)
Appended(surv) ==
    IF surv = <<>> THEN <<>> ELSE <<TokText(Head(surv)), " ">> \o Appended(Tail(surv))
clstr(surv) ==
    LET a == Appended(surv)
        p == SubSeq(a, 1, Len(a) - 1)
    IN  IF p # <<>> /\ p[Len(p)] # "\n" THEN Append(p, "\n") ELSE p

\* the ids of a sequence of tokens
Parsed(s) == [i \in 1 .. Len(s) |-> strtoul(s[i])]

\* if(tok[strlen(tok) - 1] == '>') tok = strtok(nullptr, mbdelim): the tokens of
\* a line after its label
Members(l) == IF l # <<>> /\ Head(l) = Label THEN Tail(l) ELSE l

\* a header that declares its counts: "# Clusters: c, Nodes: n"
HeaderLine(c, n) == <<Hash, c, n>>

\* the counts parseCnlHeader yields for the lines read when a file is opened:
\* those of the header, 0 for a count that is not declared
Declared(got) ==
    IF got # <<>> /\ Len(got[1]) = 3 /\ Head(got[1]) = Hash
    THEN [clsnum |-> got[1][2], ndsnum |-> got[1][3]]
    ELSE [clsnum |-> 0, ndsnum |-> 0]

\* the declarations of a header: one count, the other or both
Declarations == {<<1, 0>>, <<0, 1>>, <<1, 1>>}

\* a scan that takes no line for a comment
IsCommentNever(l) == FALSE

\* if(!tok || tok[0] == '#') continue;
IsComment(l) == l # <<>> /\ Head(l) = Hash

\* the lines a scan loop gets to process when the file is read with a fresh
\* buffer: do { body } while(line.readline(file)) leaves the loop with the
\* last line unprocessed when that line is not the first one and has no '\n'
Scanned(f) ==
    IF f.nl \/ Len(f.lines) <= 1 THEN f.lines
    ELSE SubSeq(f.lines, 1, Len(f.lines) - 1)

\* what strtok leaves of a tokenised line: the first token
Stale(l) == IF l = <<>> THEN <<>> ELSE <<Head(l)>>

\* UniqIds loadNodes(file, membership, cmin, cmax)
loadNodes(f, lo, hi) ==
    IF ~f.open THEN {}
    ELSE UNION {Range(Parsed(Members(Scanned(f)[i]))) : i \in {j \in 1 .. Len(Scanned(f)) :
                    /\ ~IsComment(Scanned(f)[j])
                    /\ Members(Scanned(f)[j]) # <<>>
                    /\ SizeOk(Len(Members(Scanned(f)[j])), lo, hi)}}

BaseFiles == {NoFile} \cup {[open |-> TRUE, lines |-> ls, nl |-> TRUE] :
                                ls \in {<<>>} \cup {<<l>> : l \in Lines}}

Digests == 0 .. DigestSpace - 1
StubHeader == [written |-> FALSE, clusters |-> 0, nodes |-> 0, patched |-> FALSE]
NoPrev == [out |-> <<>>, clusters |-> 0, nodes |-> 0, patched |-> FALSE]

\* the output file as it is given to the run: defined (opened) or not, empty or
\* not, and whether its size can be fetched
FreshFile == [defined |-> TRUE, empty |-> TRUE, sized |-> TRUE]
OutFiles == [defined : BOOLEAN, empty : BOOLEAN, sized : BOOLEAN]

\* fout.size(): size_t(-1) when the length fetching failed
UnknownSize == 0 - 1
FoutSize(f) == IF ~f.sized THEN UnknownSize ELSE IF f.empty THEN 0 ELSE 1

\* a validation of the output that only tests that it is defined
RejectedUndefined(f) == ~f.defined

\* if(!fout) return false;  if(fosize && fosize != size_t(-1)) return false;
Rejected(f) == ~f.defined \/ (FoutSize(f) # 0 /\ FoutSize(f) # UnknownSize)

\* pool: the lines a file may hold, budget: the tokens a run may read, files:
\* the number of input files, ragged: the last line of a file may lack its
\* '\n', headers: a file may start with a header comment, bits: the width of
\* Id, fout: the output file, declared: the pairs of counts (clusters, nodes)
\* a header may declare, membership: the sign of the membership argument,
\* sizes: whether the size of an input file can be fetched, wfail: writing to
\* the output may fail
EnvFull == [pool |-> Lines, budget |-> MaxTokens, files |-> MaxFiles,
            ragged |-> TRUE, headers |-> FALSE, bits |-> IdBits, fout |-> FreshFile,
            declared |-> {}, membership |-> 1, sizes |-> {TRUE},
            wfail |-> FALSE]

\* files of clusters that repeat each other in other orders and of clusters
\* of different ids with the same size, sum and sum of squares (0+4+5 = 1+2+6,
\* 0+16+25 = 1+4+36); the squares are exact in the width
DupPool == {<<0, 4, 5>>, <<5, 0, 4>>, <<1, 2, 6>>, <<6, 2, 1>>,
            <<0, 4>>, <<1, 3>>, <<3, 1>>, <<2>>}
EnvDup == [pool |-> DupPool, budget |-> DupTokens, files |-> MaxFiles,
           ragged |-> FALSE, headers |-> FALSE, bits |-> WideBits, fout |-> FreshFile,
           declared |-> {}, membership |-> 1, sizes |-> {TRUE},
            wfail |-> FALSE]

EnvSync == [pool |-> Lines, budget |-> SyncTokens, files |-> MaxFiles,
            ragged |-> TRUE, headers |-> FALSE, bits |-> IdBits, fout |-> FreshFile,
            declared |-> {}, membership |-> 1, sizes |-> {TRUE},
            wfail |-> FALSE]
EnvFilter == [EnvSync EXCEPT !.headers = TRUE]

InitWith(envs, modes, bases, cmins, cmaxs) ==
    /\ env \in envs
    /\ mode \in modes
    /\ fbase \in bases
    /\ cmin \in cmins /\ cmax \in cmaxs
    /\ pc = "start" /\ run = 1 /\ prev = NoPrev
    /\ nodebase = {} /\ nosync = TRUE
    /\ chashes = [d \in Digests |-> <<>>]
    /\ line = <<>> /\ ateof = FALSE /\ fidx = 0
    /\ out = <<>> /\ hdr = StubHeader
    /\ hist = <<>> /\ inp = <<>> /\ ntok = 0

\* ---------------------------------------------------------- readline ----
\* The outcomes of one StringBuffer::readline call on the current stream:
\* nothing is read at the end of the file, otherwise one line is read, which
\* either ends with '\n' or is the unterminated last line of the file.
\* In run 2 the file is the output of run 1: its header and its lines.
Eof == [k |-> "eof", l |-> <<>>, nl |-> TRUE]
PrevFile == <<Comment>> \o prev.out
Outcomes(eofFlag, nt, pos, first) ==
    IF eofFlag THEN {Eof}
    ELSE IF run = 2
         THEN IF pos < Len(PrevFile)
              THEN {[k |-> "line", l |-> PrevFile[pos + 1], nl |-> TRUE]}
              ELSE {Eof}
         ELSE {Eof}
              \cup {[k |-> "line", l |-> l, nl |-> b] :
                        l \in {x \in env.pool : nt + Len(x) <= env.budget},
                        b \in (IF env.ragged THEN BOOLEAN ELSE {TRUE})}
              \cup (IF first /\ env.headers
                    THEN {[k |-> "line", l |-> h, nl |-> TRUE] :
                            h \in {Comment} \cup {HeaderLine(d[1], d[2]) : d \in env.declared}}
                    ELSE {})

\* bool readline(FILE*): true when a line was read and the end of the file
\* was not reached
Ret(o) == o.k = "line" /\ o.nl
Buf(o, old) == IF o.k = "line" THEN o.l ELSE old
AtEof(o) == o.k = "eof" \/ ~o.nl
Cost(o) == IF o.k = "line" /\ ~IsComment(o.l) THEN Len(o.l) ELSE 0
Got(o) == IF o.k = "line" THEN <<o.l>> ELSE <<>>

\* the history of the current file after the outcome o
Fed(files, o) ==
    IF o.k = "eof" THEN files
    ELSE [files EXCEPT ![Len(files)] =
            [lines |-> @.lines \o <<o.l>>, nl |-> o.nl]]

\* parseHeader(file, line, clsnum, ndsnum) on a newly opened stream: reads the
\* first line and, when that is a comment, takes it for the header, tokenises
\* it and reads the following line.  Yields the buffer, the end-of-file
\* indicator, the content read and the tokens read.
parseHeader(buf, nt) ==
    UNION {
        IF Ret(o1) /\ IsComment(o1.l)
        THEN {[line |-> Buf(o2, Stale(o1.l)), ateof |-> AtEof(o2),
               got |-> Got(o1) \o Got(o2), nl |-> o2.nl, ntok |-> nt + Cost(o2)] :
                    o2 \in Outcomes(FALSE, nt, 1, FALSE)}
        ELSE {[line |-> Buf(o1, buf), ateof |-> AtEof(o1),
               got |-> Got(o1), nl |-> o1.nl, ntok |-> nt + Cost(o1)]}
        : o1 \in Outcomes(FALSE, nt, 0, TRUE)}

\* ---------------------------------------------- capacity estimation ----
\* Id estimateNodes(size, membership):
\* if(membership <= 0) throw invalid_argument(...)
estimateCnlNodesThrows(membership) == membership <= 0

\* estimateClusters(ndsnum, membership) rejects a membership that is not
\* positive in the same way
estimateClustersThrows(membership) == membership <= 0

\* the estimation in loadNodes: the nodes are estimated from the size of the
\* file when the header declares no count and the size is known
LoadEstimateThrows(d, sized) ==
    d.ndsnum = 0 /\ d.clsnum = 0 /\ sized /\ estimateCnlNodesThrows(env.membership)

\* the estimation for a file of mergeCollections: the nodes are estimated
\* from the size when the header does not declare them and the size is known,
\* the clusters from the nodes when the header does not declare them
MergeEstimateThrows(d, sized) ==
    \/ d.ndsnum = 0 /\ sized /\ estimateCnlNodesThrows(env.membership)
    \/ d.ndsnum # 0 /\ d.clsnum = 0 /\ estimateClustersThrows(env.membership)

\* the estimation for a file of extractBase: the nodes only
ExtractEstimateThrows(d, sized) ==
    d.ndsnum = 0 /\ sized /\ estimateCnlNodesThrows(env.membership)

EstimateThrows(d, sized) ==
    IF mode = "merge" THEN MergeEstimateThrows(d, sized)
    ELSE ExtractEstimateThrows(d, sized)

\* a count that fits the records of a file, and a count of the magnitude of
\* the largest that a header can declare (a value of Id): 2 * 10^9
Modest == 1
Huge == 2000000000

\* the counts for which space is reserved when a file is opened:
\* mergeCollections: chashes.reserve(clsnum), and nodebase.reserve(ndsnum)
\* when there is no node base; extractBase: nodebase.reserve(ndsnum)
Reserved(d) ==
    IF mode = "merge"
    THEN {d.clsnum} \cup (IF nosync THEN {d.ndsnum} ELSE {})
    ELSE {d.ndsnum}

\* reserve(n) of an unordered container allocates its n buckets at once: for
\* a count of the magnitude of Huge the allocation succeeds, or it throws
\* bad_alloc or the process is killed for its use of memory, as the machine
\* decides
ReserveOutcomes(counts) ==
    IF Huge \in counts THEN {"ok", "bad_alloc"} ELSE {"ok"}

\* ------------------------------------------------- mergeCollections ----
\* chashes.size(): the number of keys of the map
chashesSize == Cardinality({d \in Digests : chashes[d] # <<>>})

\* a bucket lookup that compares the last stored fingerprint only
InBucketLast(bucket, agg) == bucket # <<>> /\ AggEq(bucket[Len(bucket)], agg)

\* a bucket lookup that takes any stored fingerprint of the digest for a match
InBucketAny(bucket, agg) == bucket # <<>>

\* std::find(ich->second.begin(), ich->second.end(), agghash) != end
InBucket(bucket, agg) == \E i \in 1 .. Len(bucket) : AggEq(bucket[i], agg)

\* a filter that lets every token pass
SyncedAll(id) == TRUE

\* the validation of the output at the start of mergeCollections and of
\* extractBase fails: false is returned before anything is read or written
Reject ==
    /\ pc = "start" /\ mode \in {"merge", "extract"}
    /\ Rejected(env.fout)
    /\ pc' = "failed"
    /\ UNCHANGED <<env, mode, cmin, cmax, fbase, run, prev, nodebase, nosync,
                   chashes, line, ateof, fidx, out, hdr, hist, inp, ntok>>

\* a filter that ignores the nosync flag
SyncedBase(tok) == strtoul(tok) \in nodebase

\* a scan that goes on after a failed write
FputsFailedNever(res) == FALSE

\* if(fputs(clstr.c_str(), fout) == EOF) return false;
FputsFailed(res) == res = "EOF"

\* if(nosync || nodebase.count(nid)): the token is taken into the cluster
Synced(tok) == nosync \/ strtoul(tok) \in nodebase

\* the start of mergeCollections: the node base is loaded (its clusters are
\* not filtered by size) and the stub header is written; the exception of the
\* estimation in loadNodes leaves the function before anything is written
MStart ==
    /\ pc = "start" /\ mode = "merge"
    /\ ~Rejected(env.fout)
    /\ \E sized \in env.sizes :
        IF fbase.open /\ LoadEstimateThrows(Declared(fbase.lines), sized)
        THEN /\ pc' = "thrown"
             /\ UNCHANGED <<nodebase, nosync, hdr>>
        ELSE /\ nodebase' = loadNodes(fbase, 0, 0)
             /\ nosync' = (loadNodes(fbase, 0, 0) = {})
             /\ hdr' = [StubHeader EXCEPT !.written = TRUE]
             /\ pc' = "open"
    /\ UNCHANGED <<env, mode, cmin, cmax, fbase, run, prev, chashes, line, ateof,
                   fidx, out, hist, inp, ntok>>

\* for(auto& file: files): the next file is taken and its header parsed
OpenFile ==
    /\ pc = "open"
    /\ fidx < (IF run = 2 THEN 1 ELSE env.files)
    /\ \E r \in parseHeader(line, ntok), sized \in env.sizes :
        /\ line' = r.line
        /\ ateof' = r.ateof
        /\ ntok' = r.ntok
        /\ inp' = Append(inp, [lines |-> r.got, nl |-> r.nl])
        /\ \E alloc \in ReserveOutcomes(Reserved(Declared(r.got))) :
            pc' = IF EstimateThrows(Declared(r.got), sized) THEN "thrown"
                  ELSE IF alloc = "bad_alloc" THEN "bad_alloc"
                  ELSE "body"
    /\ fidx' = fidx + 1
    /\ UNCHANGED <<env, mode, cmin, cmax, fbase, run, prev, nodebase, nosync,
                   chashes, out, hdr, hist>>

\* the readline call that ends an iteration of the scan loop
NextLine(toks) ==
    \E o \in Outcomes(ateof, ntok, Len(inp[fidx].lines), FALSE) :
        /\ line' = Buf(o, Stale(toks))
        /\ ateof' = AtEof(o)
        /\ ntok' = ntok + Cost(o)
        /\ inp' = Fed(inp, o)
        /\ pc' = IF Ret(o) THEN "body" ELSE "open"

\* one iteration of the scan loop of mergeCollections
MBody ==
    /\ pc = "body" /\ mode = "merge"
    /\ LET toks == Members(line)
           surv == SelectSeq(toks, Synced)
           agg == AggOf(Parsed(surv))
           ch == hash(agg)
           skip == toks = <<>> \/ IsComment(line)
           ok == surv # <<>> /\ SizeOk(Len(surv), cmin, cmax)
           new == ok /\ ~InBucket(chashes[ch], agg)
       IN  \E res \in (IF ~skip /\ new /\ env.wfail THEN {"ok", "EOF"} ELSE {"ok"}) :
            LET wr == new /\ res = "ok"
            IN  /\ IF skip
                   THEN UNCHANGED <<nodebase, chashes, out, hist>>
                   ELSE /\ nodebase' = IF ok /\ ~nosync
                                       THEN nodebase \cup Range(Parsed(surv))
                                       ELSE nodebase
                        /\ chashes' = IF new THEN [chashes EXCEPT ![ch] = Append(@, agg)]
                                      ELSE chashes
                        /\ out' = IF wr THEN Append(out, surv) ELSE out
                        /\ hist' = Append(hist, [file |-> fidx, toks |-> toks,
                                                 surv |-> surv, agg |-> agg, ok |-> ok,
                                                 wr |-> wr,
                                                 at |-> IF wr THEN Len(out) + 1 ELSE 0,
                                                 text |-> IF wr THEN clstr(surv)
                                                          ELSE <<>>])
                /\ IF ~skip /\ new /\ FputsFailed(res)
                   THEN pc' = "failed" /\ UNCHANGED <<line, ateof, ntok, inp>>
                   ELSE NextLine(line)
    /\ UNCHANGED <<env, mode, cmin, cmax, fbase, run, prev, nosync, fidx, hdr>>

\* NamedFileWrapper::reopen when freopen fails: freopen has closed the stream
\* and FileWrapper::reset closes it once more, which is undefined: the run goes
\* on with a null stream or the process is ended
ReopenFailed == {"null", "crashed"}

\* the header update after the last file: the output is reopened for update
\* and the two numbers are overwritten; when the reopening fails the stub stays
MPatch ==
    /\ pc = "open" /\ mode = "merge"
    /\ fidx >= 1
    /\ \E reopened \in {"ok"} \cup ReopenFailed :
        /\ hdr' = IF reopened = "ok"
                  THEN [hdr EXCEPT !.clusters = chashesSize,
                                   !.nodes = Cardinality(nodebase),
                                   !.patched = TRUE]
                  ELSE hdr
        /\ pc' = IF reopened = "crashed" THEN "crashed" ELSE "done"
    /\ UNCHANGED <<env, mode, cmin, cmax, fbase, run, prev, nodebase, nosync,
                   chashes, line, ateof, fidx, out, hist, inp, ntok>>

\* the output of a finished merge run is given as the only input of a second
\* merge run with the same size bounds and the same node base
Remerge ==
    /\ pc = "done" /\ mode = "merge" /\ run = 1
    /\ run' = 2
    /\ prev' = [out |-> out, clusters |-> hdr.clusters, nodes |-> hdr.nodes,
                patched |-> hdr.patched]
    /\ pc' = "start"
    /\ nodebase' = {} /\ nosync' = TRUE
    /\ chashes' = [d \in Digests |-> <<>>]
    /\ line' = <<>> /\ ateof' = FALSE /\ fidx' = 0
    /\ out' = <<>> /\ hdr' = StubHeader
    /\ hist' = <<>> /\ inp' = <<>> /\ ntok' = 0
    /\ UNCHANGED <<env, mode, cmin, cmax, fbase>>

\* ----------------------------------------------------- StringBuffer ----
\* The buffer at the level of characters: mode "readline" reads a file of
\* characters (inp) from the stream position fidx with the end-of-file
\* indicator ateof into the buffer line, a sequence of size() characters.
NUL == "0"
NL == "\n"
Chars == {"a", "b", NL}

\* StringBuffer(size = spagesize): a zero-filled vector
NewBuffer == [i \in 1 .. PageSize |-> NUL]

\* the C string at the start of the buffer
RECURSIVE CStr(_)
CStr(data) == IF data = <<>> \/ Head(data) = NUL THEN <<>>
              ELSE <<Head(data)>> \o CStr(Tail(data))

\* the physical line that starts after pos characters of the file
RECURSIVE LineAt(_, _)
LineAt(file, pos) ==
    IF pos >= Len(file) THEN <<>>
    ELSE IF file[pos + 1] = NL THEN <<NL>>
    ELSE <<file[pos + 1]>> \o LineAt(file, pos + 1)

\* the n characters of text put at the index at (from 0) of data
Put(data, at, text) ==
    [i \in 1 .. Len(data) |->
        IF i > at /\ i <= at + Len(text) THEN text[i - at] ELSE data[i]]

\* fgets(data + cur, n, input): at most n - 1 characters up to and with the
\* '\n', then a NUL; NULL (ok = FALSE) when the end of the file comes before
\* any character
fgets(data, cur, n, file, pos) ==
    LET l == LineAt(file, pos)
        got == IF Len(l) <= n - 1 THEN l ELSE SubSeq(l, 1, n - 1)
        short == got = <<>> \/ (Len(got) < n - 1 /\ got[Len(got)] # NL)
    IN  IF got = <<>>
        THEN [ok |-> FALSE, data |-> data, pos |-> pos, eof |-> TRUE]
        ELSE [ok |-> TRUE, data |-> Put(data, cur, got \o <<NUL>>),
              pos |-> pos + Len(got), eof |-> short]

\* resize(size() + spagesize, 0)
Grown(data) == data \o [i \in 1 .. PageSize |-> NUL]

\* while(fgets(data() + m_cur, size() - m_cur, input) && data()[size()-2])
\*     { m_cur = size() - 1; resize(size() + spagesize, 0); }
RECURSIVE readline(_, _, _, _, _)
readline(data, cur, file, pos, eof) ==
    LET r == fgets(data, cur, Len(data) - cur, file, pos)
    IN  IF eof THEN [data |-> data, pos |-> pos, eof |-> TRUE]
        ELSE IF r.ok /\ r.data[Len(data) - 1] # NUL
        THEN readline(Grown(r.data), Len(data) - 1, file, r.pos, r.eof)
        ELSE [data |-> r.data, pos |-> r.pos, eof |-> r.eof]

\* one call of StringBuffer::readline on the stream
Readline ==
    /\ pc = "read" /\ mode = "readline"
    /\ LET r == readline(line, 0, inp, fidx, ateof)
       IN  /\ line' = r.data
           /\ fidx' = r.pos
           /\ ateof' = r.eof
           /\ hist' = Append(hist, [from |-> fidx, to |-> r.pos,
                                    size |-> Len(line), got |-> CStr(r.data)])
           /\ pc' = IF r.eof THEN "done" ELSE "read"
    /\ UNCHANGED <<env, mode, cmin, cmax, fbase, run, prev, nodebase, nosync,
                   chashes, out, hdr, inp, ntok>>

\* ------------------------------------------- the text of the header ----
\* parseHeader at the level of characters: mode "parse" tokenises the header
\* comment in line, the C string after its '#'.  "c" stands for the word
\* clusters, "n" for the word nodes, "5" for a digit, "x" for a letter.
attrnameDelim == {" ", ":"}
IdDelim == {" "}

\* strtok on the rest of the string: the token (empty for NULL) and the rest
\* after the delimiter that ended it
RECURSIVE SkipDelim(_, _)
SkipDelim(str, delim) ==
    IF str # <<>> /\ Head(str) \in delim THEN SkipDelim(Tail(str), delim) ELSE str
RECURSIVE TokLen(_, _)
TokLen(str, delim) ==
    IF str = <<>> \/ Head(str) \in delim THEN 0 ELSE 1 + TokLen(Tail(str), delim)
strtok(str, delim) ==
    LET t == SkipDelim(str, delim)
        n == TokLen(t, delim)
    IN  [tok |-> SubSeq(t, 1, n), rest |-> SubSeq(t, n + 2, Len(t))]

\* strtoul(tok, nullptr, 10) of a token: white space is skipped, the leading
\* digits are converted, 0 when there is none
RECURSIVE DigitsValue(_, _)
DigitsValue(str, acc) ==
    IF str = <<>> \/ Head(str) # "5" THEN acc
    ELSE DigitsValue(Tail(str), acc * 10 + 5)
strtoulText(tok) == DigitsValue(SkipDelim(tok, {" ", NL}), 0)

\* parseId: tok = strtok(nullptr, " \t,"); val = strtoul(tok, nullptr, 10);
\* strtoul of a null pointer is undefined: the process is ended
parseId(rest) ==
    LET t == strtok(rest, IdDelim)
    IN  [crash |-> t.tok = <<>>, val |-> strtoulText(t.tok), rest |-> t.rest]

\* do { ... } while((tok = strtok(nullptr, attrnameDelim)) && attrs < 2)
RECURSIVE parseAttrs(_, _, _, _)
parseAttrs(tok, rest, attrs, res) ==
    IF tok \notin {<<"c">>, <<"n">>} THEN res
    ELSE LET v == parseId(rest)
             r == IF tok = <<"c">> THEN [res EXCEPT !.clsnum = v.val]
                  ELSE [res EXCEPT !.ndsnum = v.val]
             t == strtok(v.rest, attrnameDelim)
         IN  IF v.crash THEN [res EXCEPT !.crash = TRUE]
             ELSE IF t.tok # <<>> /\ attrs + 1 < 2
             THEN parseAttrs(t.tok, t.rest, attrs + 1, r)
             ELSE r

\* the counts parseHeader takes from the text of a header comment
parseHeaderText(str) ==
    LET t == strtok(str, attrnameDelim)
    IN  IF t.tok = <<>> \/ Head(t.tok) = "#"
        THEN [clsnum |-> 0, ndsnum |-> 0, crash |-> FALSE]
        ELSE parseAttrs(t.tok, t.rest, 0, [clsnum |-> 0, ndsnum |-> 0, crash |-> FALSE])

\* parseHeader on the header comment in the buffer, then the line after it
\* is read for the scan loop
HParse ==
    /\ pc = "header" /\ mode = "parse"
    /\ LET r == parseHeaderText(line)
       IN  /\ hist' = Append(hist, r)
           /\ pc' = IF r.crash THEN "crashed" ELSE "body"
    /\ UNCHANGED <<env, mode, cmin, cmax, fbase, run, prev, nodebase, nosync,
                   chashes, line, ateof, fidx, out, hdr, inp, ntok>>

\* ------------------------------------------------ a run as a function ----
\* The lines the scan loop of one file hands to its body, and the buffer it
\* leaves, for a file of known content read with the buffer buf:
\* parseCnlHeader takes a terminated first comment for the header;
\* do { body } while(line.readline(file)) runs the body on the line that is in
\* the buffer (the stale one when nothing was read), then on every line read
\* with its '\n'; a last line without '\n' ends the loop unprocessed
FileBodies(f, buf) ==
    LET L == f.lines
        hasHdr == L # <<>> /\ IsComment(L[1]) /\ (Len(L) > 1 \/ f.nl)
        start == IF hasHdr THEN 2 ELSE 1
        b0 == IF hasHdr THEN Stale(L[1]) ELSE buf
        cut == ~f.nl /\ Len(L) > start
    IN  IF start > Len(L)
        THEN [lines |-> <<b0>>, buf |-> Stale(b0)]
        ELSE [lines |-> SubSeq(L, start, IF cut THEN Len(L) - 1 ELSE Len(L)),
              buf |-> IF cut THEN L[Len(L)] ELSE Stale(L[Len(L)])]

RECURSIVE Bodies(_, _)
Bodies(files, buf) ==
    IF files = <<>> THEN <<>>
    ELSE FileBodies(Head(files), buf).lines
            \o Bodies(Tail(files), FileBodies(Head(files), buf).buf)

\* one iteration of the scan loop of mergeCollections or of extractBase on the
\* containers st, with the node base filter on or off
BodyOn(st, l, m, sync, lo, hi) ==
    LET toks == Members(l)
        surv == IF m = "merge" /\ sync
                THEN SelectSeq(toks, LAMBDA t : strtoul(t) \in st.nodebase)
                ELSE toks
        agg == AggOf(Parsed(surv))
        ok == surv # <<>> /\ SizeOk(Len(surv), lo, hi)
        wr == m = "merge" /\ ok /\ ~InBucket(st.chashes[hash(agg)], agg)
    IN  IF toks = <<>> \/ IsComment(l) THEN st
        ELSE [nodebase |-> IF ok /\ (m = "extract" \/ sync)
                           THEN st.nodebase \cup Range(Parsed(surv))
                           ELSE st.nodebase,
              chashes |-> IF wr THEN [st.chashes EXCEPT ![hash(agg)] = Append(@, agg)]
                          ELSE st.chashes,
              out |-> IF wr THEN Append(st.out, surv) ELSE st.out]

RECURSIVE ScanAll(_, _, _, _, _, _)
ScanAll(st, ls, m, sync, lo, hi) ==
    IF ls = <<>> THEN st
    ELSE ScanAll(BodyOn(st, Head(ls), m, sync, lo, hi), Tail(ls), m, sync, lo, hi)

\* the containers after the last file of a run of mergeCollections (m =
\* "merge") or of extractBase (m = "extract") over the files, with the base
RunOn(files, base, m, lo, hi) ==
    LET nb == IF m = "merge" THEN loadNodes(base, 0, 0) ELSE {}
    IN  ScanAll([nodebase |-> nb, chashes |-> [d \in Digests |-> <<>>], out |-> <<>>],
                Bodies(files, <<>>), m, nb # {}, lo, hi)

\* ------------------------------------------------- the header bytes ----
\* numeric_limits<Id>::digits10 of the 32-bit Id, and the number of decimal
\* digits of its largest value
IdDigits10 == 9
MaxDigits == 10

RECURSIVE Pow10(_)
Pow10(n) == IF n = 0 THEN 1 ELSE 10 * Pow10(n - 1)

RECURSIVE Spaces(_)
Spaces(n) == IF n <= 0 THEN <<>> ELSE <<" ">> \o Spaces(n - 1)

\* printf("%lu", n)
DigitChars == <<"0", "1", "2", "3", "4", "5", "6", "7", "8", "9">>
RECURSIVE Decimal(_)
Decimal(n) == IF n < 10 THEN <<DigitChars[n + 1]>>
              ELSE Decimal(n \div 10) \o <<DigitChars[(n % 10) + 1]>>

\* string(ceil(numeric_limits<Id>::digits10), ' ') with "0," put at its start
idvalStub == <<"0", ",">> \o Spaces(IdDigits10 - 2)
hdrprefix == <<"#", " ", "C", "l", "u", "s", "t", "e", "r", "s", ":", " ">>
ndsprefix == <<" ", "N", "o", "d", "e", "s", ":", " ">>
hdrsuffix == <<" ", "F", "u", "z", "z", "y", ":", " ", "0", ",", " ",
               "N", "u", "m", "b", "e", "r", "e", "d", ":", " ", "0", "\n">>
header == hdrprefix \o idvalStub \o ndsprefix \o idvalStub \o hdrsuffix

\* fseek(fout, pos, SEEK_SET) and a write of text: the bytes from pos on are
\* overwritten and the file grows when the text goes past its end
WriteAt(bytes, pos, text) ==
    [i \in 1 .. (IF pos + Len(text) > Len(bytes) THEN pos + Len(text) ELSE Len(bytes)) |->
        IF i > pos /\ i <= pos + Len(text) THEN text[i - pos] ELSE bytes[i]]

\* the two fprintf(fout, "%lu,", ...) of the header update
PatchBytes(bytes, clusters, nodes) ==
    WriteAt(WriteAt(bytes, Len(hdrprefix), Decimal(clusters) \o <<",">>),
            Len(hdrprefix) + Len(idvalStub) + Len(ndsprefix), Decimal(nodes) \o <<",">>)

\* final counts of a run: the powers of ten and their predecessors, where the
\* number of digits changes
Counts == {0} \cup {Pow10(k) : k \in 0 .. MaxDigits - 1}
              \cup {Pow10(k) - 1 : k \in 1 .. MaxDigits - 1}

\* the stub header of mergeCollections as bytes
HStub ==
    /\ pc = "start" /\ mode = "header"
    /\ hdr' = [written |-> TRUE, clusters |-> 0, nodes |-> 0, patched |-> FALSE,
               bytes |-> header]
    /\ pc' = "open"
    /\ UNCHANGED <<env, mode, cmin, cmax, fbase, run, prev, nodebase, nosync,
                   chashes, line, ateof, fidx, out, hist, inp, ntok>>

\* the header update of mergeCollections as bytes, after a scan that ended
\* with some number of digests and of nodes
HPatch ==
    /\ pc = "open" /\ mode = "header"
    /\ \E c \in Counts, n \in Counts :
        hdr' = [hdr EXCEPT !.clusters = c, !.nodes = n, !.patched = TRUE,
                           !.bytes = PatchBytes(@, c, n)]
    /\ pc' = "done"
    /\ UNCHANGED <<env, mode, cmin, cmax, fbase, run, prev, nodebase, nosync,
                   chashes, line, ateof, fidx, out, hist, inp, ntok>>

\* ------------------------------------------------------- extractBase ----
\* the orders in which the ids of an unordered_set can be iterated
Orders(S) == {s \in [1 .. Cardinality(S) -> S] : Range(s) = S}

\* the start of extractBase: the stub header "# Clusters: 1, Nodes: 0," is written
EStart ==
    /\ pc = "start" /\ mode = "extract"
    /\ ~Rejected(env.fout)
    /\ nodebase' = {}
    /\ hdr' = [StubHeader EXCEPT !.written = TRUE, !.clusters = 1]
    /\ pc' = "open"
    /\ UNCHANGED <<env, mode, cmin, cmax, fbase, run, prev, nosync, chashes,
                   line, ateof, fidx, out, hist, inp, ntok>>

\* one iteration of the scan loop of extractBase
EBody ==
    /\ pc = "body" /\ mode = "extract"
    /\ LET toks == Members(line)
           skip == toks = <<>> \/ IsComment(line)
           ok == SizeOk(Len(toks), cmin, cmax)
       IN  /\ IF skip
              THEN UNCHANGED <<nodebase, hist>>
              ELSE /\ nodebase' = IF ok THEN nodebase \cup Range(Parsed(toks))
                                  ELSE nodebase
                   /\ hist' = Append(hist, [file |-> fidx, toks |-> toks,
                                            surv |-> toks, agg |-> clear, ok |-> ok,
                                            wr |-> FALSE, at |-> 0, text |-> <<>>])
           /\ NextLine(line)
    /\ UNCHANGED <<env, mode, cmin, cmax, fbase, run, prev, nosync, chashes,
                   fidx, out, hdr>>

\* the end of extractBase: the header is patched after a reopening for update
\* and the node base is appended as one line, its ids in the order of the set.
\* When the reopening fails the stream is null and the fseek that follows
\* does not return normally or fails: no line is written
EFinish ==
    /\ pc = "open" /\ mode = "extract"
    /\ fidx >= 1
    /\ \E reopened \in {"ok"} \cup ReopenFailed :
        IF reopened = "ok"
        THEN /\ hdr' = [hdr EXCEPT !.nodes = Cardinality(nodebase), !.patched = TRUE]
             /\ \E order \in Orders(nodebase) : out' = Append(out, order)
             /\ pc' = "done"
        ELSE /\ UNCHANGED <<hdr, out>>
             /\ pc' \in {"failed", "crashed"}
    /\ UNCHANGED <<env, mode, cmin, cmax, fbase, run, prev, nodebase, nosync,
                   chashes, line, ateof, fidx, hist, inp, ntok>>

\* ---------------------------------------------------------- loadNodes ----
\* a call of loadNodes with size bounds on a file of its own
LoadFiles == {[open |-> TRUE, lines |-> ls, nl |-> b] :
                ls \in {<<>>} \cup {<<l>> : l \in Lines}
                        \cup {<<l, m>> : l \in Lines, m \in Lines},
                b \in BOOLEAN}

LStart ==
    /\ pc = "start" /\ mode = "load"
    /\ nodebase' = loadNodes(fbase, cmin, cmax)
    /\ pc' = "done"
    /\ UNCHANGED <<env, mode, cmin, cmax, fbase, run, prev, nosync, chashes,
                   line, ateof, fidx, out, hdr, hist, inp, ntok>>

\* ------------------------------------------------------ specifications ----
Sizes == 0 .. MaxSize

InitMerge == InitWith({EnvFull}, {"merge"}, {NoFile}, Sizes, Sizes)
NextMerge == MStart \/ OpenFile \/ MBody \/ MPatch \/ Remerge
SpecMerge == InitMerge /\ [][NextMerge]_vars

InitDup == InitWith({EnvDup}, {"merge"}, {NoFile}, {0, MaxSize}, {0, MaxSize})
NextDup == MStart \/ OpenFile \/ MBody \/ MPatch
SpecDup == InitDup /\ [][NextDup]_vars

InitSync == InitWith({EnvSync}, {"merge"}, BaseFiles, Sizes, Sizes)
NextSync == MStart \/ OpenFile \/ MBody \/ MPatch \/ Remerge
SpecSync == InitSync /\ [][NextSync]_vars

\* runs of the three places of the size filter: merging (without and with a
\* node base), extraction, and loadNodes called with size bounds
BaseLow == [open |-> TRUE, lines |-> <<<<0, 1>>>>, nl |-> TRUE]
InitFilter ==
    \/ InitWith({EnvFilter}, {"merge", "extract"}, {NoFile, BaseLow}, Sizes, Sizes)
    \/ InitWith({EnvFilter}, {"load"}, LoadFiles, Sizes, Sizes)
NextFilter == MStart \/ OpenFile \/ MBody \/ MPatch \/ EStart \/ EBody \/ EFinish \/ LStart
SpecFilter == InitFilter /\ [][NextFilter]_vars

\* runs given any output file: undefined, not empty, of unknown size
EnvsOutput == {[EnvSync EXCEPT !.fout = f] : f \in OutFiles}
InitOutput == InitWith(EnvsOutput, {"merge", "extract"}, {NoFile, BaseLow}, {0}, {0})
NextOutput == Reject \/ MStart \/ OpenFile \/ MBody \/ MPatch \/ EStart \/ EBody \/ EFinish
SpecOutput == InitOutput /\ [][NextOutput]_vars

\* the bytes of the header of a merge run
InitHeader == InitWith({EnvFull}, {"header"}, {NoFile}, {0}, {0})
NextHeader == HStub \/ HPatch
SpecHeader == InitHeader /\ [][NextHeader]_vars

InitExtract == InitWith({EnvFull}, {"extract"}, {NoFile}, Sizes, Sizes)
NextExtract == EStart \/ OpenFile \/ EBody \/ EFinish
SpecExtract == InitExtract /\ [][NextExtract]_vars

\* ================================================================ claims ====
Recs == 1 .. Len(hist)
Finished == pc = "done" /\ run = 1
Patched == Finished /\ hdr.patched

\* ---- C1 ----
\* the accepted records before record i with the ids of record i, in any order
PermsBefore(i) == {k \in 1 .. i - 1 : hist[k].ok /\ IsPerm(hist[k].surv, hist[i].surv)}

\* C1 as stated: of the accepted records of a merge run whose id sequences
\* are permutations of each other exactly one writes a line: the one read first
C1_FirstOfPermsWritten ==
    mode = "merge" =>
        \A i, j \in Recs :
            (i < j /\ hist[i].ok /\ hist[j].ok /\ IsPerm(hist[i].surv, hist[j].surv))
            => /\ ~hist[j].wr
               /\ PermsBefore(i) = {} => hist[i].wr /\ out[hist[i].at] = hist[i].surv

\* C1 amended: of two accepted records whose id sequences are permutations of
\* each other the later one never writes a line, and the earlier one writes
\* its line exactly when no record accepted before it has the same tuple
C1_LaterPermDropped ==
    mode = "merge" =>
        \A i, j \in Recs :
            (i < j /\ hist[i].ok /\ hist[j].ok /\ IsPerm(hist[i].surv, hist[j].surv))
            => /\ ~hist[j].wr
               /\ hist[i].wr <=> ~\E k \in 1 .. i - 1 : hist[k].ok /\ hist[k].agg = hist[i].agg
               /\ hist[i].wr => out[hist[i].at] = hist[i].surv

\* a cluster of one file comes again in another order in the next file: the
\* line of the first is in the output and the second wrote nothing
C1_Witness ==
    /\ mode = "merge"
    /\ \E i, j \in Recs :
          /\ i < j /\ hist[i].file # hist[j].file
          /\ hist[i].surv # hist[j].surv /\ IsPerm(hist[i].surv, hist[j].surv)
          /\ hist[i].wr /\ ~hist[j].wr /\ Len(hist[i].surv) >= 3

\* ---- C2 ----
\* C2 as stated: an accepted record of a merge run is dropped only if an
\* earlier accepted record has the same set of node ids
C2_DroppedOnlyForSameSet ==
    mode = "merge" =>
        \A j \in Recs : (hist[j].ok /\ ~hist[j].wr) =>
            \E i \in 1 .. j - 1 : hist[i].ok /\ Range(hist[i].surv) = Range(hist[j].surv)

\* C2 amended: an accepted record of a merge run is dropped exactly when an
\* earlier accepted record has the same tuple (count, sum, sum of squares)
C2_DroppedForSameTuple ==
    mode = "merge" =>
        \A j \in Recs : hist[j].ok =>
            (~hist[j].wr <=> \E i \in 1 .. j - 1 : hist[i].ok /\ hist[i].agg = hist[j].agg)

\* a record was dropped after a record of other node ids with the same tuple
C2_Witness ==
    /\ mode = "merge"
    /\ \E i, j \in Recs :
          /\ i < j /\ hist[i].wr /\ hist[j].ok /\ ~hist[j].wr
          /\ Range(hist[i].surv) # Range(hist[j].surv)
          /\ hist[i].agg = hist[j].agg

\* ---- C3 ----
\* C3: in a merge run the digest only selects the bucket: an accepted record
\* is dropped only when a fingerprint with an equal tuple was stored before, so
\* of two accepted records with equal digests and different tuples neither
\* is dropped because of the other; every stored fingerprint is kept in the
\* bucket of its digest and every written record has its line in the output.
C3_TupleDecides ==
    mode = "merge" =>
        /\ \A j \in Recs : hist[j].ok =>
              /\ hist[j].wr <=> ~\E i \in 1 .. j - 1 : hist[i].wr /\ hist[i].agg = hist[j].agg
              /\ hist[j].wr => /\ out[hist[j].at] = hist[j].surv
                               /\ \E n \in 1 .. Len(chashes[hash(hist[j].agg)]) :
                                     chashes[hash(hist[j].agg)][n] = hist[j].agg
        /\ \A i, j \in Recs :
              (/\ i < j /\ hist[i].ok /\ hist[j].ok
               /\ hash(hist[i].agg) = hash(hist[j].agg)
               /\ hist[i].agg # hist[j].agg
               /\ ~\E k \in 1 .. i - 1 : hist[k].ok /\ hist[k].agg = hist[i].agg
               /\ ~\E k \in 1 .. j - 1 : hist[k].ok /\ hist[k].agg = hist[j].agg)
              => hist[i].wr /\ hist[j].wr

\* two records with equal digests and different tuples were both written
C3_Witness ==
    /\ mode = "merge"
    /\ \E i, j \in Recs :
          /\ i < j /\ hist[i].wr /\ hist[j].wr
          /\ hash(hist[i].agg) = hash(hist[j].agg)
          /\ hist[i].agg # hist[j].agg
          /\ Len(chashes[hash(hist[i].agg)]) >= 2

\* ---- C4 ----
\* C4: after a merge run with a successful header patch the Clusters field of
\* the header equals the number of cluster lines written
C4_ClustersIsLines ==
    (Patched /\ mode = "merge") => hdr.clusters = Len(out)

\* ---- C5 ----
\* the distinct ids of the clusters the size filter accepted
AcceptedIds == UNION {Range(hist[i].surv) : i \in {j \in Recs : hist[j].ok}}

\* C5: after a merge run without a node base and with a successful header
\* patch the Nodes field of the header equals the number of distinct node ids
\* of the clusters accepted by the size filter
C5_NodesIsAccepted ==
    (Patched /\ mode = "merge" /\ ~fbase.open) => hdr.nodes = Cardinality(AcceptedIds)

\* ---- C6 ----
\* the ids of the file of the node base
BaseIds == UNION {Range(fbase.lines[n]) : n \in 1 .. Len(fbase.lines)}
InBaseIds(id) == id \in BaseIds
RECURSIVE Stored(_)
Stored(d) == IF d < 0 THEN 0 ELSE Len(chashes[d]) + Stored(d - 1)
Written == {j \in Recs : hist[j].wr}

InBounds(n) == cmin <= n /\ (cmax = 0 \/ n <= cmax)
FileLines == {fbase.lines[n] : n \in 1 .. Len(fbase.lines)}

\* C7: a non-empty cluster of n surviving tokens is accepted exactly when
\* cmin <= n and (cmax = 0 or n <= cmax).  In a merge run the accepted
\* clusters are those that are written or repeat the tuple of a written one;
\* in an extraction run the node base is the ids of the accepted clusters;
\* loadNodes yields the ids of the accepted clusters of a file whose lines
\* all end with a newline
C7_InclusiveBounds ==
    /\ mode \in {"merge", "extract"} =>
          \A j \in Recs : hist[j].ok <=> (hist[j].surv # <<>> /\ InBounds(Len(hist[j].surv)))
    /\ mode = "merge" =>
          \A j \in Recs : (hist[j].surv # <<>> /\ InBounds(Len(hist[j].surv))) <=>
              (hist[j].wr \/ \E i \in 1 .. j - 1 : hist[i].wr /\ hist[i].agg = hist[j].agg)
    /\ mode = "extract" =>
          nodebase = UNION {Range(hist[j].toks) : j \in {k \in Recs : InBounds(Len(hist[k].toks))}}
    /\ (mode = "load" /\ pc = "done" /\ fbase.nl) =>
          nodebase = UNION {Range(l) : l \in {x \in FileLines : InBounds(Len(x))}}

\* a merge run accepted a cluster of cmin tokens and rejected one of cmax + 1
C7_Witness ==
    /\ mode = "merge" /\ cmin > 0 /\ cmax > 0
    /\ \E i, j \in Recs :
          /\ Len(hist[i].surv) = cmin /\ hist[i].ok /\ hist[i].wr
          /\ Len(hist[j].surv) = cmax + 1 /\ ~hist[j].ok /\ ~hist[j].wr

\* ---- C8 ----
\* the clusters of the input files of the run
InputLines == UNION {{inp[f].lines[n] : n \in 1 .. Len(inp[f].lines)} : f \in 1 .. Len(inp)}
InputIds == UNION {Range(l) : l \in {x \in InputLines : ~IsComment(x) /\ InBounds(Len(x))}}

\* C8: an extraction run writes exactly one cluster line, which holds every
\* node id of the clusters of the input files that the size filter accepts
\* exactly once and no other id, and its header declares Clusters: 1 and
\* Nodes: n with n the number of these ids
C8_UnionOfInputs ==
    (mode = "extract" /\ pc = "done") =>
        /\ Len(out) = 1
        /\ Range(out[1]) = InputIds
        /\ Len(out[1]) = Cardinality(InputIds)
        /\ hdr.clusters = 1
        /\ hdr.nodes = Cardinality(InputIds)

EnvsMember == {[EnvSync EXCEPT !.headers = TRUE, !.declared = Declarations,
                                !.membership = m, !.sizes = BOOLEAN] :
                    m \in {0 - 1, 0, 1}}
InitMember == InitWith(EnvsMember, {"merge", "extract"}, {NoFile, BaseLow}, {0}, {0})
NextMember == MStart \/ OpenFile \/ MBody \/ MPatch \/ EStart \/ EBody \/ EFinish
SpecMember == InitMember /\ [][NextMember]_vars

\* files of labelled clusters, of labels alone and of tokens that are not
\* numbers
TokenPool == {<<Label>>, <<Label, 1>>, <<Label, 0, 1>>, <<0>>, <<1>>, <<0, 1>>, <<1, 0>>,
              <<Junk>>, <<Junk, 1>>, <<1, Junk>>}
EnvTokens == [EnvFull EXCEPT !.pool = TokenPool]
InitTokens == InitWith({EnvTokens}, {"merge", "extract"}, {NoFile, BaseLow}, {0}, {0})
NextTokens == MStart \/ OpenFile \/ MBody \/ MPatch \/ EStart \/ EBody \/ EFinish
SpecTokens == InitTokens /\ [][NextTokens]_vars

\* three input files of a few clusters, some of which repeat in another order
OrderPool == {<<0, 1>>, <<1, 0>>, <<0>>, <<2>>}
EnvOrder == [EnvFull EXCEPT !.pool = OrderPool, !.budget = OrderTokens,
                            !.files = OrderFiles, !.ragged = FALSE]
InitOrder == InitWith({EnvOrder}, {"merge"}, {NoFile}, {0}, {0})
NextOrder == MStart \/ OpenFile \/ MBody \/ MPatch
SpecOrder == InitOrder /\ [][NextOrder]_vars

\* base files that are not opened or hold no node id: an empty file, a file
\* of a comment, a file of a label alone; and a base of two ids
BlankBases == {NoFile} \cup {[open |-> TRUE, lines |-> ls, nl |-> TRUE] :
                                ls \in {<<>>, <<Comment>>, <<<<Label>>>>}}
InitNoBase == InitWith({EnvSync}, {"merge"}, BlankBases \cup {BaseLow}, Sizes, Sizes)
NextNoBase == MStart \/ OpenFile \/ MBody \/ MPatch
SpecNoBase == InitNoBase /\ [][NextNoBase]_vars

\* input files whose headers declare counts that fit or counts that do not
EnvCapacity == [EnvSync EXCEPT !.headers = TRUE,
                               !.declared = {<<Modest, Modest>>, <<Huge, Huge>>}]
InitCapacity == InitWith({EnvCapacity}, {"merge", "extract"}, {NoFile, BaseLow}, {0}, {0})
NextCapacity == MStart \/ OpenFile \/ MBody \/ MPatch \/ EStart \/ EBody \/ EFinish
SpecCapacity == InitCapacity /\ [][NextCapacity]_vars

\* a merge run whose writes to the output may fail
EnvWrite == [EnvSync EXCEPT !.wfail = TRUE]
InitWrite == InitWith({EnvWrite}, {"merge"}, {NoFile, BaseLow}, {0}, {0})
NextWrite == MStart \/ OpenFile \/ MBody \/ MPatch
SpecWrite == InitWrite /\ [][NextWrite]_vars

\* files of characters read through a new StringBuffer
CharFiles == UNION {[1 .. n -> Chars] : n \in 0 .. MaxChars}
InitBuffer ==
    /\ env = EnvFull /\ mode = "readline" /\ fbase = NoFile
    /\ cmin = 0 /\ cmax = 0
    /\ pc = "read" /\ run = 1 /\ prev = NoPrev
    /\ nodebase = {} /\ nosync = TRUE
    /\ chashes = [d \in Digests |-> <<>>]
    /\ line = NewBuffer /\ ateof = FALSE /\ fidx = 0
    /\ out = <<>> /\ hdr = StubHeader
    /\ hist = <<>> /\ inp \in CharFiles /\ ntok = 0
NextBuffer == Readline
SpecBuffer == InitBuffer /\ [][NextBuffer]_vars

\* header comments as readline leaves them in the buffer: text that ends with
\* the '\n' of the line, or text cut by a NUL byte of the file
HeaderChars == {"c", "n", "5", "x", ":", " "}
HeaderTexts == UNION {[1 .. n -> HeaderChars] : n \in 0 .. MaxHeader}
HeaderLines == HeaderTexts \cup {Append(t, NL) : t \in HeaderTexts}
InitParse ==
    /\ env = EnvFull /\ mode = "parse" /\ fbase = NoFile
    /\ cmin = 0 /\ cmax = 0
    /\ pc = "header" /\ run = 1 /\ prev = NoPrev
    /\ nodebase = {} /\ nosync = TRUE
    /\ chashes = [d \in Digests |-> <<>>]
    /\ line \in HeaderLines /\ ateof = FALSE /\ fidx = 0
    /\ out = <<>> /\ hdr = StubHeader
    /\ hist = <<>> /\ inp = <<>> /\ ntok = 0
NextParse == HParse
SpecParse == InitParse /\ [][NextParse]_vars

\* files of clusters with labels and with shares after their ids
TextPool == {<<Label, 0, 11>>, <<10, 2>>, <<2, 10>>, <<1>>, <<11>>, <<Label, 12>>, <<2, 1>>}
EnvText == [EnvFull EXCEPT !.pool = TextPool]
InitText == InitWith({EnvText}, {"merge"}, {NoFile, BaseLow}, {0}, {0})
NextText == MStart \/ OpenFile \/ MBody \/ MPatch
SpecText == InitText /\ [][NextText]_vars

\* ---- FileWrapper and NamedFileWrapper ----
\* In the mode "wrap" inp holds the wrappers, out the number of times each
\* opened stream has been closed, nodebase the streams released to the caller.
MaxWrappers == 2
MaxStreams == 2
nullptr == 0
Wrappers == 1 .. MaxWrappers

\* a wrapper object that does not exist (not constructed or destroyed)
NoWrapper == [alive |-> FALSE, named |-> FALSE, m_dsc |-> nullptr, m_tidy |-> FALSE]

\* fclose(m_dsc)
fclose(cl, fd) == [cl EXCEPT ![fd] = @ + 1]

\* fopen and the caller's own descriptors: a stream not opened before, a
\* stream that release() has handed out, or no stream
Fresh == IF Len(out) < MaxStreams THEN {Len(out) + 1} ELSE {}
Given == {nullptr} \cup Fresh \cup nodebase
Opened(fd) == IF fd \in Fresh THEN Append(out, 0) ELSE out

\* FileWrapper::reset(fd, cleanup)
reset(w, fd, cleanup, cl) ==
    [w  |-> [w EXCEPT !.m_dsc = fd, !.m_tidy = cleanup],
     cl |-> IF w.m_dsc # nullptr /\ w.m_tidy /\ w.m_dsc # fd
            THEN fclose(cl, w.m_dsc) ELSE cl]

\* the state after an operation; closing a closed stream is undefined, the
\* program goes on or is ended
WrapStep(ws, cl, rel) ==
    /\ inp' = ws /\ out' = cl /\ nodebase' = rel
    /\ pc' \in (IF \E s \in 1 .. Len(cl) : cl[s] > 1 THEN {"wrap", "crashed"}
                ELSE {"wrap"})
    /\ UNCHANGED <<env, mode, cmin, cmax, fbase, run, prev, nosync, chashes,
                   line, ateof, fidx, hdr, hist, ntok>>

\* FileWrapper(fd, cleanup)
Construct(i) ==
    /\ mode = "wrap" /\ pc = "wrap" /\ ~inp[i].alive
    /\ \E fd \in Given, cleanup \in BOOLEAN :
        WrapStep([inp EXCEPT ![i] = [alive |-> TRUE, named |-> FALSE,
                                     m_dsc |-> fd, m_tidy |-> cleanup]],
                 Opened(fd), nodebase \ {fd})

\* NamedFileWrapper(filename, mode): m_file(filename ? fopen(...) : nullptr)
NamedConstruct(i) ==
    /\ mode = "wrap" /\ pc = "wrap" /\ ~inp[i].alive
    /\ \E fd \in {nullptr} \cup Fresh :
        WrapStep([inp EXCEPT ![i] = [alive |-> TRUE, named |-> TRUE,
                                     m_dsc |-> fd, m_tidy |-> TRUE]],
                 Opened(fd), nodebase)

\* FileWrapper(FileWrapper&& fw), NamedFileWrapper(NamedFileWrapper&& fw)
MoveConstruct(i, j) ==
    /\ mode = "wrap" /\ pc = "wrap" /\ i # j /\ ~inp[i].alive /\ inp[j].alive
    /\ WrapStep([inp EXCEPT ![i] = inp[j], ![j].m_dsc = nullptr], out, nodebase)

\* operator=(FileWrapper&& fw): reset(fw.m_dsc, fw.m_tidy); fw.m_dsc = nullptr
MoveAssign(i, j) ==
    /\ mode = "wrap" /\ pc = "wrap" /\ inp[i].alive /\ inp[j].alive
    /\ inp[i].named = inp[j].named
    /\ LET r == reset(inp[i], inp[j].m_dsc, inp[j].m_tidy, out)
           ws == [inp EXCEPT ![i] = r.w]
       IN  WrapStep([ws EXCEPT ![j].m_dsc = nullptr], r.cl, nodebase)

\* FileWrapper::reset(fd, cleanup); NamedFileWrapper::reset(filename, mode)
Reset(i) ==
    /\ mode = "wrap" /\ pc = "wrap" /\ inp[i].alive
    /\ \E fd \in (IF inp[i].named THEN {nullptr} \cup Fresh ELSE Given),
          cleanup \in (IF inp[i].named THEN {TRUE} ELSE BOOLEAN) :
        LET r == reset(inp[i], fd, cleanup, Opened(fd))
        IN  WrapStep([inp EXCEPT ![i] = r.w], r.cl, nodebase \ {fd})

\* NamedFileWrapper::reopen(mode): m_file.reset(freopen(nullptr, mode, m_file)).
\* freopen gives back the stream it was given, or closes it and gives nullptr.
Reopen(i) ==
    /\ mode = "wrap" /\ pc = "wrap" /\ inp[i].alive /\ inp[i].named
    /\ IF inp[i].m_dsc = nullptr
       THEN \* freopen is handed no stream: the program is ended
            /\ pc' = "crashed"
            /\ UNCHANGED <<env, mode, cmin, cmax, fbase, run, prev, nodebase, nosync,
                           chashes, line, ateof, fidx, out, hdr, hist, inp, ntok>>
       ELSE \E reopened \in BOOLEAN :
                LET fd == IF reopened THEN inp[i].m_dsc ELSE nullptr
                    cl == IF reopened THEN out ELSE fclose(out, inp[i].m_dsc)
                    r == reset(inp[i], fd, TRUE, cl)
                IN  WrapStep([inp EXCEPT ![i] = r.w], r.cl, nodebase)

\* release()
Release(i) ==
    /\ mode = "wrap" /\ pc = "wrap" /\ inp[i].alive
    /\ WrapStep([inp EXCEPT ![i].m_dsc = nullptr], out,
                nodebase \cup ({inp[i].m_dsc} \ {nullptr}))

\* ~FileWrapper()
Destruct(i) ==
    /\ mode = "wrap" /\ pc = "wrap" /\ inp[i].alive
    /\ WrapStep([inp EXCEPT ![i] = NoWrapper],
                IF inp[i].m_dsc # nullptr /\ inp[i].m_tidy
                THEN fclose(out, inp[i].m_dsc) ELSE out,
                nodebase)

InitWrap ==
    /\ env = EnvFull /\ mode = "wrap" /\ fbase = NoFile
    /\ cmin = 0 /\ cmax = 0
    /\ pc = "wrap" /\ run = 1 /\ prev = NoPrev
    /\ nodebase = {} /\ nosync = TRUE
    /\ chashes = [d \in Digests |-> <<>>]
    /\ line = <<>> /\ ateof = FALSE /\ fidx = 0
    /\ out = <<>> /\ hdr = StubHeader
    /\ hist = <<>> /\ inp = [i \in Wrappers |-> NoWrapper] /\ ntok = 0
NextWrap ==
    \E i \in Wrappers :
        \/ Construct(i)
        \/ NamedConstruct(i)
        \/ \E j \in Wrappers : MoveConstruct(i, j)
        \/ \E j \in Wrappers : MoveAssign(i, j)
        \/ Reset(i)
        \/ Reopen(i)
        \/ Release(i)
        \/ Destruct(i)
SpecWrap == InitWrap /\ [][NextWrap]_vars

\* ---- main: the output path, the node base and the inputs ----
\* In the mode "main" inp holds the arguments of the run and what the file
\* system answers, prev the output path before the run and line the output
\* path now.
MaxInputs == 2
PathStates == {[exists |-> FALSE, content |-> <<>>],
               [exists |-> TRUE, content |-> <<>>],
               [exists |-> TRUE, content |-> <<<<1>>>>]}
\* an input path: no such entry, an entry fopen cannot open, a file that opens
InputKinds == {"unexisting", "unopened", "opened"}
Runs == [rewrite : BOOLEAN, creatable : BOOLEAN, sync_base_given : BOOLEAN,
         base : InputKinds,
         inputs : UNION {[1 .. n -> InputKinds] : n \in 1 .. MaxInputs}]

\* openFiles(names): the files that could be opened
openFiles(names) == SelectSeq(names, LAMBDA k : k = "opened")

\* createFile(outpname, rewrite): the path after the call; fopen(outpname, "w")
\* creates the file or cuts it to no content
createFile(path, rewrite, creatable) ==
    IF (path.exists /\ ~rewrite) \/ ~creatable THEN path
    ELSE [exists |-> TRUE, content |-> <<>>]

MainFrame == UNCHANGED <<env, mode, cmin, cmax, fbase, run, prev, nodebase, nosync,
                         chashes, ateof, fidx, out, hdr, hist, inp, ntok>>

\* NamedFileWrapper fout = createFile(outpname, rewrite); if(!fout) return 1
CreateOutput ==
    /\ mode = "main" /\ pc = "create"
    /\ line' = createFile(line, inp.rewrite, inp.creatable)
    /\ pc' = IF line.exists /\ ~inp.rewrite THEN "kept"
             ELSE IF ~inp.creatable THEN "thrown"
             ELSE "base"
    /\ MainFrame

\* if(sync_base_given) { files = openFiles({sync_base_arg}); if(files.empty()) return 1 }
OpenBase ==
    /\ mode = "main" /\ pc = "base"
    /\ pc' = IF inp.sync_base_given /\ openFiles(<<inp.base>>) = <<>>
             THEN "nobase" ELSE "inputs"
    /\ UNCHANGED line /\ MainFrame

\* files = openFiles(names); if(files.empty()) return 1; the scan follows
OpenInputs ==
    /\ mode = "main" /\ pc = "inputs"
    /\ pc' = IF openFiles(inp.inputs) = <<>> THEN "noinputs" ELSE "scan"
    /\ UNCHANGED line /\ MainFrame

InitMain ==
    /\ env = EnvFull /\ mode = "main" /\ fbase = NoFile
    /\ cmin = 0 /\ cmax = 0
    /\ pc = "create" /\ run = 1
    /\ nodebase = {} /\ nosync = TRUE
    /\ chashes = [d \in Digests |-> <<>>]
    /\ ateof = FALSE /\ fidx = 0
    /\ out = <<>> /\ hdr = StubHeader
    /\ hist = <<>> /\ ntok = 0
    /\ inp \in Runs
    /\ prev \in PathStates /\ line = prev
NextMain == CreateOutput \/ OpenBase \/ OpenInputs
SpecMain == InitMain /\ [][NextMain]_vars

\* ---- C11 ----
\* nothing was read and nothing was written by the run
Untouched ==
    /\ out = <<>> /\ hdr = StubHeader
    /\ inp = <<>> /\ hist = <<>> /\ ntok = 0 /\ fidx = 0
    /\ nodebase = {} /\ chashes = [d \in Digests |-> <<>>]

\* C11 as stated: when the output file is undefined or is not empty the run
\* fails and nothing is read or written
C11_NotEmptyRejected ==
    (mode \in {"merge", "extract"} /\ (~env.fout.defined \/ ~env.fout.empty)) =>
        pc \in {"start", "failed"} /\ Untouched

\* C11 amended: when the output file is undefined, or its size is fetched and
\* is not zero, the run fails and nothing is read or written; an output whose
\* size cannot be fetched is taken for empty
C11_KnownNotEmptyRejected ==
    /\ (/\ mode \in {"merge", "extract"}
        /\ ~env.fout.defined \/ (env.fout.sized /\ ~env.fout.empty)) =>
            pc \in {"start", "failed"} /\ Untouched
    /\ (/\ mode \in {"merge", "extract"}
        /\ env.fout.defined /\ (~env.fout.sized \/ env.fout.empty)) =>
            pc # "failed" \/ hdr.written

\* a run on an output that is not empty has failed
C11_Witness ==
    /\ pc = "failed" /\ env.fout.defined /\ ~env.fout.empty /\ env.fout.sized
    /\ Untouched

\* ---- C12 ----
\* the reopening of the output of a merge run failed
MergeNotReopened == mode = "merge" /\ pc \in {"done", "crashed"} /\ ~hdr.patched

\* C12: when the reopening of the output fails in a merge run the run still
\* reports success, the line of every written record is in the output and the
\* header is the stub with its two zeros
C12_ReopenFailureHarmless ==
    MergeNotReopened =>
        /\ pc = "done"
        /\ hdr = [StubHeader EXCEPT !.written = TRUE]
        /\ \A j \in Recs : hist[j].wr => out[hist[j].at] = hist[j].surv

\* ---- C13 ----
\* the reopening of the output of an extraction run failed
ExtractNotReopened ==
    mode = "extract" /\ pc \in {"done", "failed", "crashed"} /\ hdr.written /\ ~hdr.patched

\* C13: when the reopening of the output fails in an extraction run the stub
\* header stays, the run still reports success and the output holds the one
\* line of the node base
C13_ExtractReopenFailureHarmless ==
    ExtractNotReopened =>
        /\ pc = "done"
        /\ hdr = [StubHeader EXCEPT !.written = TRUE, !.clusters = 1]
        /\ Len(out) = 1 /\ Range(out[1]) = nodebase

\* ---- C14 ----
\* the offsets of the bytes of the two reserved fields
ClustersField == Len(hdrprefix) + 1 .. Len(hdrprefix) + Len(idvalStub)
NodesField == Len(hdrprefix) + Len(idvalStub) + Len(ndsprefix) + 1 ..
              Len(hdrprefix) + 2 * Len(idvalStub) + Len(ndsprefix)

\* C14: the header update changes only bytes of the two reserved fields: the
\* digits and the comma of each count fit in its field, the length of the
\* header is unchanged and every byte outside the fields is as in the stub
C14_PatchInsideFields ==
    (mode = "header" /\ pc = "done") =>
        /\ Len(Decimal(hdr.clusters)) + 1 <= Len(idvalStub)
        /\ Len(Decimal(hdr.nodes)) + 1 <= Len(idvalStub)
        /\ Len(hdr.bytes) = Len(header)
        /\ \A i \in 1 .. Len(header) :
              i \notin (ClustersField \cup NodesField) => hdr.bytes[i] = header[i]

\* ---- C15 ----
\* a run whose membership is not positive ends in no other way than by the
\* invalid-argument exception of the estimation, and writes no cluster line
\* before it: whatever the headers of the inputs declare, with or without a
\* node base
Ended == pc \in {"done", "failed", "crashed"}
C15_NonPositiveAborts ==
    (mode \in {"merge", "extract"} /\ env.membership <= 0) => ~Ended /\ out = <<>>

\* the containers of the run agree with the run as a function of its files
RunAgrees ==
    (mode \in {"merge", "extract"} /\ pc \in {"open", "done", "crashed"} /\ run = 1) =>
        LET r == RunOn(inp, fbase, mode, cmin, cmax)
        IN  /\ r.nodebase = nodebase
            /\ r.chashes = chashes
            /\ mode = "merge" => r.out = out

\* ---- C16 ----
\* a line that holds a label and nothing else
LabelOnly(l) == l = <<Label>>

\* the files without their label-only lines; the line before a removed last
\* line has its '\n'
WithoutLabelOnly(files) ==
    [i \in 1 .. Len(files) |->
        [lines |-> SelectSeq(files[i].lines, LAMBDA l : ~LabelOnly(l)),
         nl |-> files[i].nl \/ (files[i].lines # <<>>
                                 /\ LabelOnly(files[i].lines[Len(files[i].lines)]))]]

\* a finished run over files with label-only lines has written the lines, and
\* holds the fingerprint buckets and the node base, of the run over the same
\* files without those lines
C16_LabelOnlyAsAbsent ==
    (mode \in {"merge", "extract"} /\ pc = "done") =>
        LET r == RunOn(WithoutLabelOnly(inp), fbase, mode, cmin, cmax)
        IN  /\ r.nodebase = nodebase
            /\ r.chashes = chashes
            /\ mode = "merge" => r.out = out

\* ---- C17 ----
\* the tokens of a sequence that are decimal numbers
IsNumber(tok) == tok \in Nat
Numbers(s) == SelectSeq(s, IsNumber)

\* a token that is not a number is skipped: no record keeps it among its
\* surviving tokens, the size test and the fingerprint of a record are those
\* of its numbers, no line written holds it, and the node base holds only ids
\* of the base file and of the numbers of the records
C17_UnparsableSkipped ==
    /\ \A i \in 1 .. Len(out) : Junk \notin Range(out[i])
    /\ \A j \in Recs :
        /\ mode = "merge" =>
            /\ Junk \notin Range(hist[j].surv)
            /\ hist[j].agg = AggOf(Numbers(hist[j].surv))
        /\ hist[j].ok => Numbers(hist[j].surv) # <<>>
    /\ nodebase \subseteq
            BaseIds \cup UNION {Range(Numbers(hist[j].toks)) : j \in Recs}

\* ---- C18 ----
\* the lines of the input files, in the order of the files and top to bottom
RECURSIVE Flat(_)
Flat(files) == IF files = <<>> THEN <<>> ELSE Head(files).lines \o Flat(Tail(files))

\* the tokens of an input line that the node base lets pass
SurvOf(l) == SelectSeq(Members(l), Synced)

\* the places of the input where the cluster of the output line i stands
SeenAt(i) == {p \in 1 .. Len(Flat(inp)) :
                ~IsComment(Flat(inp)[p]) /\ IsPerm(SurvOf(Flat(inp)[p]), out[i])}
Min(S) == CHOOSE x \in S : \A y \in S : x <= y

\* the output lines whose clusters stand in the input are in the order of the
\* first places of their clusters, and each is the text of the record at that
\* first place
C18_FirstSeenOrder ==
    (mode = "merge" /\ Finished) =>
        \A i \in 1 .. Len(out) : SeenAt(i) # {} =>
            /\ out[i] = SurvOf(Flat(inp)[Min(SeenAt(i))])
            /\ \A k \in i + 1 .. Len(out) :
                    SeenAt(k) # {} => Min(SeenAt(i)) < Min(SeenAt(k))

\* ---- C19 ----
\* the base file is not opened or none of its lines holds a node id
BaseYieldsNone ==
    ~fbase.open \/ \A n \in 1 .. Len(fbase.lines) :
                        IsComment(fbase.lines[n]) \/ Members(fbase.lines[n]) = <<>>

\* in a merge run whose base is not opened or yields no node id every token of
\* every record is retained, and the lines written are those of the run over
\* the same files with no base
C19_BlankBaseIsNoBase ==
    (mode = "merge" /\ BaseYieldsNone) =>
        /\ \A j \in Recs : hist[j].surv = hist[j].toks
        /\ pc \in {"open", "done", "crashed"} =>
                out = RunOn(inp, NoFile, "merge", cmin, cmax).out
C19_Witness ==
    /\ mode = "merge" /\ pc = "done" /\ fbase.open /\ BaseYieldsNone
    /\ \E j \in Recs : hist[j].wr /\ Len(hist[j].toks) = 2 /\ hist[j].toks[1] > 1

\* ---- C20 ----
\* the files with the counts of their headers taken away
StripCounts(files) ==
    [i \in 1 .. Len(files) |->
        [files[i] EXCEPT !.lines =
            [n \in 1 .. Len(files[i].lines) |->
                IF IsComment(files[i].lines[n]) THEN Comment ELSE files[i].lines[n]]]]

\* whatever counts the headers declare, a run with a positive membership is
\* not ended by the reservation of space, and after each file its lines, its
\* fingerprint buckets and its node base, from which the header counts are
\* taken, are those of the run over the same records with no count declared
C20_CountsChangeNothing ==
    (mode \in {"merge", "extract"} /\ env.membership > 0) =>
        /\ pc # "bad_alloc"
        /\ pc \in {"open", "done"} =>
            LET r == RunOn(StripCounts(inp), fbase, mode, cmin, cmax)
            IN  /\ r.nodebase = nodebase
                /\ r.chashes = chashes
                /\ mode = "merge" => r.out = out

\* ---- C21 ----
\* a fingerprint is stored whose line did not reach the output: a write failed
LineLost == mode = "merge" /\ Stored(DigestSpace - 1) > Len(out)

\* when the write of a cluster line fails the run has ended with a failure:
\* the record of the failed write is the last one processed and its line the
\* last one read, no further file is opened, the header keeps its stub, and
\* the output holds the lines written before, in their order
C21_WriteFailureStops ==
    LineLost =>
        /\ pc = "failed"
        /\ hist # <<>> /\ hist[Len(hist)].ok /\ ~hist[Len(hist)].wr
        /\ \A j \in 1 .. Len(hist) - 1 : hist[j].ok /\ ~hist[j].wr =>
                \E k \in 1 .. j - 1 : hist[k].wr /\ AggEq(hist[k].agg, hist[j].agg)
        /\ Len(inp) = fidx /\ hist[Len(hist)].file = fidx
        /\ inp[fidx].lines # <<>> => inp[fidx].lines[Len(inp[fidx].lines)] = line
        /\ hdr = [StubHeader EXCEPT !.written = TRUE]
        /\ Len(out) = Cardinality(Written)
        /\ \A j \in Written : out[hist[j].at] = hist[j].surv
C21_Witness ==
    /\ LineLost /\ pc = "failed" /\ Len(out) >= 1 /\ fidx = 2

\* ---- C22 ----
\* after each readline call that reads data the buffer holds the physical
\* line that started at the stream position of the call, whole and with its
\* terminator, and nothing of the line after it, whatever its length is
\* against the size of the buffer
C22_BufferHoldsLine ==
    mode = "readline" =>
        \A j \in Recs : hist[j].to > hist[j].from =>
            hist[j].got = LineAt(inp, hist[j].from)

\* ---- C23 ----
RECURSIVE SumOf(_)
SumOf(s) == IF s = <<>> THEN 0 ELSE Head(s) + SumOf(Tail(s))
RECURSIVE SumOfSquares(_)
SumOfSquares(s) == IF s = <<>> THEN 0 ELSE Head(s) * Head(s) + SumOfSquares(Tail(s))

\* the fingerprint of a record after clear() and one add(id) for each of its
\* ids: the count is the number of the ids, the sum their sum and the sum of
\* squares the sum of their exact squares, in the width of the accumulator
C23_ExactSquares ==
    mode = "merge" =>
        \A j \in Recs :
            /\ hist[j].agg.m_size = Len(hist[j].surv) % AccMod
            /\ hist[j].agg.m_idsum = SumOf(Parsed(hist[j].surv)) % AccMod
            /\ hist[j].agg.m_id2sum = SumOfSquares(Parsed(hist[j].surv)) % AccMod

RECURSIVE HasValue(_, _)
HasValue(str, key) ==
    IF str = <<>> THEN FALSE
    ELSE LET t == strtok(str, attrnameDelim)
         IN  \/ /\ t.tok = <<key>>
                /\ SkipDelim(t.rest, attrnameDelim) # <<>>
                /\ Head(SkipDelim(t.rest, attrnameDelim)) = "5"
             \/ t.tok # <<>> /\ HasValue(t.rest, key)

\* parseHeader does not end the process on any header comment, a count whose
\* key has no number after it is 0, and the body of the file is parsed next
C25_MalformedHeaderTolerated ==
    (mode = "parse" /\ pc # "header") =>
        /\ pc = "body" /\ ~hist[1].crash
        /\ ~HasValue(line, "c") => hist[1].clsnum = 0
        /\ ~HasValue(line, "n") => hist[1].ndsnum = 0

\* the same for the header comments that are text up to the '\n' of the line
TextHeaderTolerated ==
    (mode = "parse" /\ pc # "header" /\ line # <<>> /\ line[Len(line)] = NL) =>
        /\ pc = "body" /\ ~hist[1].crash
        /\ ~HasValue(line, "c") => hist[1].clsnum = 0
        /\ ~HasValue(line, "n") => hist[1].ndsnum = 0

\* ---- C26 ----
\* the tokens of a record that pass the node base, by the ids of the base file
Passing(toks) ==
    SelectSeq(toks, LAMBDA t : loadNodes(fbase, 0, 0) = {}
                                \/ strtoul(t) \in loadNodes(fbase, 0, 0))

\* each line written is the original text of the passing tokens of its
\* record, in their order, with one space between two of them and one
\* newline at the end, and nothing else; the record is a line of an input file
C26_LineIsOriginalText ==
    mode = "merge" =>
        \A j \in Recs : hist[j].wr =>
            LET want == Passing(hist[j].toks)
                text == hist[j].text
            IN  /\ Len(text) = 2 * Len(want)
                /\ \A i \in 1 .. Len(want) :
                    /\ text[2 * i - 1] = TokString(want[i])
                    /\ text[2 * i] = IF i = Len(want) THEN "\n" ELSE " "
                /\ out[hist[j].at] = want
                /\ \E f \in 1 .. Len(inp) : \E k \in 1 .. Len(inp[f].lines) :
                       Members(inp[f].lines[k]) = hist[j].toks

\* what holds of every written line: it is the text of the passing tokens of
\* the buffer the body was run on
WrittenTextOfBuffer ==
    mode = "merge" =>
        \A j \in Recs : hist[j].wr =>
            LET want == Passing(hist[j].toks)
                text == hist[j].text
            IN  /\ Len(text) = 2 * Len(want)
                /\ \A i \in 1 .. Len(want) :
                    /\ text[2 * i - 1] = TokString(want[i])
                    /\ text[2 * i] = IF i = Len(want) THEN "\n" ELSE " "

\* ---- C27 ----
\* a file that holds no record: it is empty or all its lines are comments
HoldsNoRecord(f) == \A k \in 1 .. Len(f.lines) : IsComment(f.lines[k])
WithRecords(files) == SelectSeq(files, LAMBDA f : ~HoldsNoRecord(f))

\* a finished run has the output lines, the fingerprint buckets and the node
\* base of the run on the same files without those that hold no record
C27_NoRecordFileAddsNothing ==
    (mode \in {"merge", "extract"} /\ pc = "done") =>
        LET r == RunOn(WithRecords(inp), fbase, mode, cmin, cmax)
        IN  /\ r.nodebase = nodebase
            /\ r.chashes = chashes
            /\ mode = "merge" => r.out = out

\* ---- C28 ----
\* the records of a file: the member tokens of its lines that are neither
\* empty nor comments, in their order
RecordsOf(f) ==
    LET ls == SelectSeq(f.lines, LAMBDA l : ~IsComment(l) /\ Members(l) # <<>>)
    IN  [k \in 1 .. Len(ls) |-> Members(ls[k])]

\* what the body has processed for the file at index i, in the order of processing
ProcessedOf(i) ==
    LET hs == SelectSeq(hist, LAMBDA h : h.file = i)
    IN  [k \in 1 .. Len(hs) |-> hs[k].toks]

\* in a finished run, for every input file that holds a line, the body has
\* processed exactly the records of the file, each once and in order
C28_EveryLineOnce ==
    (mode \in {"merge", "extract"} /\ pc = "done") =>
        \A i \in 1 .. Len(inp) :
            inp[i].lines # <<>> => ProcessedOf(i) = RecordsOf(inp[i])

\* ---- C29 ----
\* the wrappers that hold the stream s
Holders(s) == {i \in Wrappers : inp[i].alive /\ inp[i].m_dsc = s}

\* every opened stream has been closed at most once, and at most one
\* wrapper holds it
C29_ClosedAtMostOnce ==
    mode = "wrap" =>
        \A s \in 1 .. Len(out) : out[s] <= 1 /\ Cardinality(Holders(s)) <= 1

\* what holds: a stream is held by at most one wrapper
SingleHolder ==
    mode = "wrap" => \A s \in 1 .. Len(out) : Cardinality(Holders(s)) <= 1

\* ---- C30 ----
\* a run ended because the node base or all the inputs could not be opened
EndedBeforeScan == mode = "main" /\ pc \in {"nobase", "noinputs"}

\* such a run leaves the output path as it was: no file created, none cut
C30_OutputPathUntouched == EndedBeforeScan => line = prev

\* what holds: an existing output is kept when the rewrite flag is not set
ExistingKeptWithoutRewrite ==
    (mode = "main" /\ prev.exists /\ ~inp.rewrite) => line = prev /\ pc \in {"create", "kept"}

====
